---- MODULE Spec2Model ----
(***************************************************************************)
(* Model of the Heaven-and-Earth compendium (src/src/game/                 *)
(* heaven_earth_data.cpp): the JSON loader, the summary aggregation and    *)
(* the read accessors of HeavenEarthCompendium.                            *)
(*                                                                         *)
(* Strings whose order or case matters (soul names, affinities) are        *)
(* sequences of character codes, compared byte-wise as std::string does.   *)
(* A pointer to an element of souls_ is the element's index.               *)
(*                                                                         *)
(* The second part models ViewFactory (src/src/views/view_factory.cpp) and *)
(* HeavenEarthView (src/src/views/heaven_earth_view.cpp): the compendium   *)
(* the factory shares among its views, the views' text caches and the      *)
(* rotation of the spotlight index.  Spec is the compendium used directly, *)
(* ViewSpec the compendium used through the factory and the views.         *)
(***************************************************************************)
EXTENDS Integers, Sequences, FiniteSets, TLC

VARIABLES loaded, sourcePath, souls, summary, call, factory, views, rotation, activation,
          step

vars == <<loaded, sourcePath, souls, summary, call, factory, views, rotation, activation,
          step>>

\* the variables of the view factory and of the views
viewVars == <<factory, views, rotation, activation, step>>

(***************************************************************************)
(* Bounds of the model.                                                    *)
(***************************************************************************)
\* longest JSON array built from the common entries alone
MaxSouls == 4
\* most common entries in an array that also holds a special entry
MaxMixed == 1
\* largest count handed to TopSouls / TopAffinities
MaxCount == 2
\* most OnPrimaryAction calls counted in one rotation
MaxPresses == 4
\* most compendiums one factory makes
MaxInstances == 2

(***************************************************************************)
(* Generic helpers.                                                        *)
(***************************************************************************)
Min(a, b) == IF a < b THEN a ELSE b

Max(a, b) == IF a < b THEN b ELSE a

Range(s) == {s[i] : i \in 1..Len(s)}

RECURSIVE SumSeq(_)
SumSeq(s) == IF s = <<>> THEN 0 ELSE Head(s) + SumSeq(Tail(s))

RECURSIVE SeqsUpTo(_, _)
SeqsUpTo(S, n) ==
    IF n = 0 THEN {<<>>}
    ELSE LET shorter == SeqsUpTo(S, n - 1)
         IN  shorter \cup {Append(s, x) : s \in {t \in shorter : Len(t) = n - 1}, x \in S}

\* std::sort leaves some permutation of the elements in which no later element
\* compares less than an earlier one; the order of elements that compare
\* equivalent is unspecified (see SortedByName, SortedByGrade, SortedByCount
\* and SortedBySoul, the four calls, each with its comparator)
RECURSIVE PermSeqs(_)
PermSeqs(S) ==
    IF S = {} THEN {<<>>}
    ELSE UNION {{<<x>> \o p : p \in PermSeqs(S \ {x})} : x \in S}

(***************************************************************************)
(* std::string: byte-wise lexicographic order, and toupper in the C locale *)
(***************************************************************************)
RECURSIVE StrLess(_, _)
StrLess(a, b) ==
    IF b = <<>> THEN FALSE
    ELSE IF a = <<>> THEN TRUE
    ELSE IF Head(a) # Head(b) THEN Head(a) < Head(b)
    ELSE StrLess(Tail(a), Tail(b))

ToUpper(ch) == IF ch \in 97..122 THEN ch - 32 ELSE ch

NormalizeKey(value) == [i \in 1..Len(value) |-> ToUpper(value[i])]

(***************************************************************************)
(* JSON values as nlohmann::json presents them to the loader.  An object   *)
(* is an entry of the array: its members are the five fields the loader    *)
(* reads and one member under a name the loader does not know; a member    *)
(* that the object lacks is JAbsent.                                       *)
(***************************************************************************)
JAbsent == [t |-> "absent"]

JNull == [t |-> "null"]

JStr(s) == [t |-> "string", s |-> s]

JInt(n) == [t |-> "number", n |-> n]

JArr(a) == [t |-> "array", a |-> a]

JObj(name, grade, category, description, affinities, other) ==
    [t |-> "object", name |-> name, grade |-> grade, category |-> category,
     description |-> description, affinities |-> affinities, other |-> other]

\* the strings used by the inputs: "a", "ab", "c", "d", "f", "F", "g", "G", "x"
sA == <<97>>
sAB == <<97, 98>>
sC == <<99>>
sD == <<100>>
sF == <<102>>
sUpperF == <<70>>
sG == <<103>>
sUpperG == <<71>>
sX == <<120>>

\* well-formed entries: every field they carry has the type of the format
EntryA7 ==
    JObj(JStr(sA), JInt(7), JStr(sC), JStr(sD), JArr(<<JStr(sF), JStr(sUpperF)>>), JInt(1))

EntryAbNeg ==
    JObj(JStr(sAB), JInt(-1), JAbsent, JAbsent,
         JArr(<<JStr(sG), JStr(<<>>), JInt(5), JStr(sF), JStr(sUpperG)>>), JAbsent)

EntryAb7 == JObj(JStr(sAB), JInt(7), JStr(sC), JAbsent, JStr(sF), JAbsent)

EntryAb0 == JObj(JStr(sAB), JAbsent, JAbsent, JStr(sD), JAbsent, JAbsent)

\* entries the loader skips: no name, an empty name, not an object
EntryNoName == JObj(JAbsent, JInt(7), JStr(sC), JAbsent, JArr(<<JStr(sG)>>), JAbsent)

EntryEmptyName == JObj(JStr(<<>>), JInt(7), JAbsent, JAbsent, JArr(<<JStr(sG)>>), JAbsent)

EntryNotObject == JInt(5)

\* an entry with a field of an unexpected JSON type
EntryStringGrade == JObj(JStr(sA), JStr(sX), JAbsent, JAbsent, JAbsent, JAbsent)

\* the entries that fill the long arrays, and those that occur once in an array
CommonEntries == {EntryA7, EntryAbNeg}

SpecialEntries ==
    {EntryAb7, EntryAb0, EntryNoName, EntryEmptyName, EntryNotObject, EntryStringGrade}

\* what opening and parsing a file gives
Unreadable == [kind |-> "unreadable", doc |-> JNull]

InvalidJson == [kind |-> "invalid", doc |-> JNull]

JsonFile(doc) == [kind |-> "json", doc |-> doc]

NoFile == [kind |-> "none", doc |-> JNull]

\* the sequences s with entry put in at any one place
Insertions(s, entry) ==
    {SubSeq(s, 1, i) \o <<entry>> \o SubSeq(s, i + 1, Len(s)) : i \in 0..Len(s)}

ArrayDocs ==
    {JArr(a) : a \in SeqsUpTo(CommonEntries, MaxSouls)}
        \cup {JArr(a) : a \in UNION {Insertions(s, entry) :
                                        s \in SeqsUpTo(CommonEntries, MaxMixed),
                                        entry \in SpecialEntries}}

OtherDocs == {EntryA7, JInt(5), JNull}

Files == {Unreadable, InvalidJson} \cup {JsonFile(d) : d \in ArrayDocs \cup OtherDocs}

\* paths handed to LoadFromFile; the empty path names no file
kRelativePath == "Heaven-and-Earth-main/data/martial_souls.json"

BaseCandidate == "<base>/Heaven-and-Earth-main/data/martial_souls.json"

Paths == {"", "mods/souls.json"}

\* the empty path cannot be opened; LoadDefault opens no file when no
\* default path resolves
FilesAt(path) == IF path = "" THEN {Unreadable} ELSE Files

DefaultFilesAt(path) == IF path = "" THEN {NoFile} ELSE Files

(***************************************************************************)
(* The loop body of LoadFromFile.                                          *)
(***************************************************************************)
\* basic_json::value(key, default) throws type_error when the member is
\* present with a type that does not convert to the default's type
ValueThrows(member, type) == member.t \notin {"absent", type}

EntryThrows(entry) ==
    \/ ValueThrows(entry.name, "string")
    \/ ValueThrows(entry.grade, "number")
    \/ ValueThrows(entry.category, "string")
    \/ ValueThrows(entry.description, "string")

StringValue(member) == IF member.t = "string" THEN member.s ELSE <<>>

IntValue(member) == IF member.t = "number" THEN member.n ELSE 0

\* StringElements ending at the first element that is not a string
RECURSIVE StringElementsUntilOther(_)
StringElementsUntilOther(a) ==
    IF a = <<>> THEN <<>>
    ELSE IF Head(a).t = "string" THEN <<Head(a).s>> \o StringElementsUntilOther(Tail(a))
    ELSE <<>>

RECURSIVE StringElements(_)
StringElements(a) ==
    IF a = <<>> THEN <<>>
    ELSE IF Head(a).t = "string" THEN <<Head(a).s>> \o StringElements(Tail(a))
    ELSE StringElements(Tail(a))

AffinitiesOf(member) == IF member.t = "array" THEN StringElements(member.a) ELSE <<>>

MartialSoul(entry) ==
    [name |-> StringValue(entry.name), grade |-> IntValue(entry.grade),
     category |-> StringValue(entry.category), affinities |-> AffinitiesOf(entry.affinities),
     description |-> StringValue(entry.description)]

\* LoadLoop without the check of soul.name.empty()
RECURSIVE LoadLoopKeepsEmptyNames(_, _)
LoadLoopKeepsEmptyNames(document, acc) ==
    IF document = <<>> THEN [threw |-> FALSE, souls |-> acc]
    ELSE LET entry == Head(document)
         IN  IF entry.t # "object" THEN LoadLoopKeepsEmptyNames(Tail(document), acc)
             ELSE IF EntryThrows(entry) THEN [threw |-> TRUE, souls |-> acc]
             ELSE LoadLoopKeepsEmptyNames(Tail(document), Append(acc, MartialSoul(entry)))

\* LoadLoop skipping an entry whose name is already recorded
RECURSIVE LoadLoopUniqueNames(_, _)
LoadLoopUniqueNames(document, acc) ==
    IF document = <<>> THEN [threw |-> FALSE, souls |-> acc]
    ELSE LET entry == Head(document)
         IN  IF entry.t # "object" THEN LoadLoopUniqueNames(Tail(document), acc)
             ELSE IF EntryThrows(entry) THEN [threw |-> TRUE, souls |-> acc]
             ELSE IF MartialSoul(entry).name = <<>> THEN LoadLoopUniqueNames(Tail(document), acc)
             ELSE IF \E i \in DOMAIN acc : acc[i].name = MartialSoul(entry).name
                  THEN LoadLoopUniqueNames(Tail(document), acc)
             ELSE LoadLoopUniqueNames(Tail(document), Append(acc, MartialSoul(entry)))

\* LoadLoop leaving the loop (break) where it should skip an entry (continue)
RECURSIVE LoadLoopBreaks(_, _)
LoadLoopBreaks(document, acc) ==
    IF document = <<>> THEN [threw |-> FALSE, souls |-> acc]
    ELSE LET entry == Head(document)
         IN  IF entry.t # "object" THEN [threw |-> FALSE, souls |-> acc]
             ELSE IF EntryThrows(entry) THEN [threw |-> TRUE, souls |-> acc]
             ELSE IF MartialSoul(entry).name = <<>> THEN [threw |-> FALSE, souls |-> acc]
             ELSE LoadLoopBreaks(Tail(document), Append(acc, MartialSoul(entry)))

RECURSIVE LoadLoop(_, _)
LoadLoop(document, acc) ==
    IF document = <<>> THEN [threw |-> FALSE, souls |-> acc]
    ELSE LET entry == Head(document)
         IN  IF entry.t # "object" THEN LoadLoop(Tail(document), acc)
             ELSE IF EntryThrows(entry) THEN [threw |-> TRUE, souls |-> acc]
             ELSE IF MartialSoul(entry).name = <<>> THEN LoadLoop(Tail(document), acc)
             ELSE LoadLoop(Tail(document), Append(acc, MartialSoul(entry)))

(***************************************************************************)
(* ComputeSummary.                                                         *)
(***************************************************************************)
RareGrade == 7

EmptySummary ==
    [totalSouls |-> 0, rareSouls |-> 0, highestGrade |-> 0, highestSoulName |-> <<>>,
     affinityNames |-> <<>>, gradeCounts |-> <<>>, affinityCounts |-> <<>>]

\* Increment assigning 1 where it should add 1
IncrementAssigns(map, key) ==
    IF key \in DOMAIN map THEN [map EXCEPT ![key] = 1] ELSE map @@ (key :> 1)

\* ++map[key] on an unordered_map<Key, int>
Increment(map, key) ==
    IF key \in DOMAIN map THEN [map EXCEPT ![key] = @ + 1] ELSE map @@ (key :> 1)

\* HighestStep taking the grade of the soul at hand, without std::max
HighestStepLatest(acc, soul) ==
    [acc EXCEPT !.highestGrade = soul.grade, !.highestSoulName = soul.name]

\* highestGrade / highestSoulName after one more soul
HighestStep(acc, soul) ==
    LET grade == Max(acc.highestGrade, soul.grade)
    IN  [acc EXCEPT !.highestGrade = grade,
                    !.highestSoulName = IF soul.grade = grade THEN soul.name ELSE @]

\* RareStep counting the grades above RareGrade only
RareStepAbove(acc, soul) ==
    IF soul.grade > RareGrade THEN [acc EXCEPT !.rareSouls = @ + 1] ELSE acc

\* rareSouls after one more soul
RareStep(acc, soul) ==
    IF soul.grade >= RareGrade THEN [acc EXCEPT !.rareSouls = @ + 1] ELSE acc

\* AffinityLoop recording the name as written, not its key
RECURSIVE AffinityLoopRawNames(_, _)
AffinityLoopRawNames(affinities, acc) ==
    IF affinities = <<>> THEN acc
    ELSE IF Head(affinities) = <<>> THEN AffinityLoopRawNames(Tail(affinities), acc)
    ELSE LET key == NormalizeKey(Head(affinities))
         IN  AffinityLoopRawNames(Tail(affinities),
                [acc EXCEPT !.affinityCounts = Increment(@, key),
                            !.affinityNames = @ \cup {Head(affinities)}])

\* AffinityLoop counting a key once where it occurs again in the same list
RECURSIVE AffinityLoopOncePerSoul(_, _)
AffinityLoopOncePerSoul(affinities, acc) ==
    IF affinities = <<>> THEN acc
    ELSE IF Head(affinities) = <<>> THEN AffinityLoopOncePerSoul(Tail(affinities), acc)
    ELSE LET key == NormalizeKey(Head(affinities))
             again == \E i \in DOMAIN Tail(affinities) : NormalizeKey(Tail(affinities)[i]) = key
         IN  AffinityLoopOncePerSoul(Tail(affinities),
                [acc EXCEPT !.affinityCounts = IF again THEN @ ELSE Increment(@, key),
                            !.affinityNames = @ \cup {key}])

\* the loop over one soul's affinities
RECURSIVE AffinityLoop(_, _)
AffinityLoop(affinities, acc) ==
    IF affinities = <<>> THEN acc
    ELSE IF Head(affinities) = <<>> THEN AffinityLoop(Tail(affinities), acc)
    ELSE LET key == NormalizeKey(Head(affinities))
         IN  AffinityLoop(Tail(affinities),
                [acc EXCEPT !.affinityCounts = Increment(@, key),
                            !.affinityNames = @ \cup {key}])

\* the loop over souls_: the summary fields and the three hash containers
RECURSIVE SummaryLoop(_, _)
SummaryLoop(ss, acc) ==
    IF ss = <<>> THEN acc
    ELSE LET soul == Head(ss)
             graded == [RareStep(HighestStep(acc, soul), soul)
                           EXCEPT !.gradeCounts = Increment(@, soul.grade)]
         IN  SummaryLoop(Tail(ss), AffinityLoop(soul.affinities, graded))

LoopStart ==
    [highestGrade |-> 0, highestSoulName |-> <<>>, rareSouls |-> 0,
     gradeCounts |-> <<>>, affinityCounts |-> <<>>, affinityNames |-> {}]

MapPairs(m) == {<<k, m[k]>> : k \in DOMAIN m}

\* GradeCountLess with the comparison turned round
GradeCountLessAscending(lhs, rhs) == lhs[1] < rhs[1]

GradeCountLess(lhs, rhs) == lhs[1] > rhs[1]

\* AffinityCountLess without the comparison of the names
AffinityCountLessByCount(lhs, rhs) == lhs[2] > rhs[2]

AffinityCountLess(lhs, rhs) ==
    IF lhs[2] # rhs[2] THEN lhs[2] > rhs[2] ELSE StrLess(lhs[1], rhs[1])

\* std::sort(affinityNames) with std::string's operator<
SortedByName(S) ==
    {p \in PermSeqs(S) : \A i, j \in 1..Len(p) : i < j => ~StrLess(p[j], p[i])}

\* std::sort(gradeCounts) with the comparator on the grades
SortedByGrade(S) ==
    {p \in PermSeqs(S) : \A i, j \in 1..Len(p) : i < j => ~GradeCountLess(p[j], p[i])}

\* std::sort(affinityCounts) with the comparator on counts and names
SortedByCount(S) ==
    {p \in PermSeqs(S) : \A i, j \in 1..Len(p) : i < j => ~AffinityCountLess(p[j], p[i])}

\* the summaries ComputeSummary may leave in summary_
ComputeSummary(ss) ==
    IF ss = <<>> THEN {EmptySummary}
    ELSE LET end == SummaryLoop(ss, LoopStart)
         IN  {[totalSouls |-> Len(ss), rareSouls |-> end.rareSouls,
               highestGrade |-> end.highestGrade,
               highestSoulName |-> end.highestSoulName,
               affinityNames |-> an, gradeCounts |-> gc, affinityCounts |-> ac] :
                 an \in SortedByName(end.affinityNames),
                 gc \in SortedByGrade(MapPairs(end.gradeCounts)),
                 ac \in SortedByCount(MapPairs(end.affinityCounts))}

(***************************************************************************)
(* The compendium's operations.  call records the latest call: its         *)
(* arguments, what the file system gave it, how it ended, what it returned *)
(* and whether the compendium was loaded when it began.                    *)
(***************************************************************************)
Call(op, path, file, count, outcome, ok, ranking, pairs) ==
    [op |-> op, path |-> path, file |-> file, count |-> count, outcome |-> outcome,
     ok |-> ok, ranking |-> ranking, pairs |-> pairs, wasLoaded |-> loaded]

\* Reset() leaving souls_ as it is
AfterResetKeepsSouls ==
    [loaded |-> FALSE, sourcePath |-> "", souls |-> souls, summary |-> EmptySummary]

\* the compendium after Reset()
AfterReset == [loaded |-> FALSE, sourcePath |-> "", souls |-> <<>>, summary |-> EmptySummary]

Ended(outcome, ok, state) == [outcome |-> outcome, ok |-> ok, state |-> state]

\* LoadFromFile(filePath), the file system giving file for filePath: the ways
\* the call may end, each with the compendium it leaves
LoadFromFileEnds(filePath, file) ==
    IF file.kind = "unreadable" THEN {Ended("returned", FALSE, AfterReset)}
    ELSE IF file.kind = "invalid" THEN {Ended("returned", FALSE, AfterReset)}
    ELSE IF file.doc.t # "array" THEN {Ended("returned", FALSE, AfterReset)}
    ELSE LET loop == LoadLoop(file.doc.a, AfterReset.souls)
         IN  IF loop.threw
             THEN \* the exception of value() leaves the function after Reset()
                  \* and the push_backs made so far
                  {Ended("threw", FALSE, [AfterReset EXCEPT !.souls = loop.souls])}
             ELSE IF loop.souls = <<>> THEN {Ended("returned", FALSE, AfterReset)}
             ELSE {Ended("returned", TRUE,
                         [loaded |-> TRUE, sourcePath |-> filePath, souls |-> loop.souls,
                          summary |-> s]) : s \in ComputeSummary(loop.souls)}

\* ResolveDefaultPath(): the relative candidate if it exists, else the one
\* under SDL_GetBasePath() if that is known and exists, else the empty path
ResolveDefaultPath(relativeExists, basePath, baseExists) ==
    IF relativeExists THEN kRelativePath
    ELSE IF basePath /\ baseExists THEN BaseCandidate
    ELSE ""

DefaultPaths ==
    {ResolveDefaultPath(relativeExists, basePath, baseExists) :
        relativeExists \in BOOLEAN, basePath \in BOOLEAN, baseExists \in BOOLEAN}

\* LoadDefault(), ResolveDefaultPath() returning defaultPath
LoadDefaultEnds(defaultPath, file) ==
    IF defaultPath = "" THEN {Ended("returned", FALSE, AfterReset)}
    ELSE LoadFromFileEnds(defaultPath, file)

\* the two loaders tabulated over the inputs of the model
LoadFromFileTable ==
    [filePath \in Paths |-> [file \in FilesAt(filePath) |-> LoadFromFileEnds(filePath, file)]]

LoadDefaultTable ==
    [defaultPath \in DefaultPaths |->
        [file \in DefaultFilesAt(defaultPath) |-> LoadDefaultEnds(defaultPath, file)]]

Becomes(state) ==
    /\ loaded' = state.loaded
    /\ sourcePath' = state.sourcePath
    /\ souls' = state.souls
    /\ summary' = state.summary

LoadFromFile(filePath, file) ==
    \E end \in LoadFromFileTable[filePath][file] :
        /\ Becomes(end.state)
        /\ call' = Call("LoadFromFile", filePath, file, 0, end.outcome, end.ok, <<>>, <<>>)

LoadDefault(defaultPath, file) ==
    \E end \in LoadDefaultTable[defaultPath][file] :
        /\ Becomes(end.state)
        /\ call' = Call("LoadDefault", defaultPath, file, 0, end.outcome, end.ok, <<>>, <<>>)

\* SoulLess without the comparison of the names
SoulLessByGrade(lhs, rhs) == souls[lhs].grade > souls[rhs].grade

SoulLess(lhs, rhs) ==
    IF souls[lhs].grade # souls[rhs].grade THEN souls[lhs].grade > souls[rhs].grade
    ELSE StrLess(souls[lhs].name, souls[rhs].name)

\* std::sort(ranking) with the comparator on the souls pointed to
SortedBySoul(S) ==
    {p \in PermSeqs(S) : \A i, j \in 1..Len(p) : i < j => ~SoulLess(p[j], p[i])}

Resize(s, count) == IF Len(s) > count THEN SubSeq(s, 1, count) ELSE s

TopSouls(count) ==
    /\ \E ranking \in SortedBySoul(DOMAIN souls) :
           call' = Call("TopSouls", "", NoFile, count, "returned", TRUE,
                        Resize(ranking, count), <<>>)
    /\ UNCHANGED <<loaded, sourcePath, souls, summary>>

TopAffinities(count) ==
    /\ call' = Call("TopAffinities", "", NoFile, count, "returned", TRUE, <<>>,
                    Resize(summary.affinityCounts, count))
    /\ UNCHANGED <<loaded, sourcePath, souls, summary>>

GradeCountsDescending ==
    /\ call' = Call("GradeCountsDescending", "", NoFile, 0, "returned", TRUE, <<>>,
                    summary.gradeCounts)
    /\ UNCHANGED <<loaded, sourcePath, souls, summary>>

(***************************************************************************)
(* ViewFactory and HeavenEarthView.  factory.compendium tells whether the  *)
(* factory's compendium_ is set; loaded, sourcePath, souls and summary are *)
(* then the members of the compendium it points to, which every view made  *)
(* by the factory shares.  views[v] is the view held under the id v, or    *)
(* NoView.  step records the latest operation: the view, the value of      *)
(* IsLoaded() at each LoadDefault() call it made, how it ended and what it *)
(* gave back.  rotation[v] counts the OnPrimaryAction calls made on v      *)
(* since BindContent followed by Activate.  activation[v] tells whether    *)
(* the view was activated, whether it was deactivated since, and the       *)
(* IsLoaded() its latest Activate saw.  factory.instances counts the       *)
(* compendiums the factory has made.                                       *)
(***************************************************************************)
\* the ids under which views are held: one view at a time, which a view
\* made later under the same id replaces
Views == {"codex"}

NoView == [exists |-> FALSE]

\* TopSouls(3) in BuildSpotlights and TopAffinities(7) in BuildDistributionRows
SpotlightCount == 3

AffinityRowCount == 7

\* the files the default path may hold when the factory or a view loads it
ViewFiles ==
    {Unreadable,
     JsonFile(JArr(<<EntryA7>>)),
     JsonFile(JArr(<<EntryAbNeg, EntryA7>>)),
     JsonFile(JArr(<<EntryAbNeg, EntryA7, EntryAbNeg, EntryA7>>)),
     JsonFile(JArr(<<EntryA7, EntryStringGrade>>))}

ViewFilesAt(path) == IF path = "" THEN {NoFile} ELSE ViewFiles

\* the ways a LoadDefault() call made by the factory or a view may end; the
\* call begins with Reset(), so they do not depend on the compendium
DefaultLoadEnds ==
    UNION {UNION {LoadDefaultTable[defaultPath][file] : file \in ViewFilesAt(defaultPath)} :
              defaultPath \in DefaultPaths}

Compendium ==
    [loaded |-> loaded, sourcePath |-> sourcePath, souls |-> souls, summary |-> summary]

\* history: no rotation is counted, or BindContent was the latest call
NotCounting == [counting |-> FALSE, bound |-> FALSE, presses |-> 0]

Bound == [counting |-> FALSE, bound |-> TRUE, presses |-> 0]

\* the rotation after presses calls of OnPrimaryAction
Counting(presses) == [counting |-> TRUE, bound |-> FALSE, presses |-> presses]

\* history: no Activate of the view has returned
NeverActivated == [phase |-> "never", data |-> FALSE]

\* history: the latest of Activate and Deactivate, and whether the latest
\* Activate found the compendium loaded
Activated(data) == [phase |-> "active", data |-> data]

Deactivated(data) == [phase |-> "deactivated", data |-> data]

\* an std::optional<SDL_Rect> without value
NoRect == [engaged |-> FALSE]

\* the rectangle of the button RenderHeroSection lays out within hero
ButtonRect(hero) == [engaged |-> TRUE, within |-> hero]

\* no bounds were handed to the latest operation
NoBounds == [given |-> FALSE]

Step(op, view, attempts, outcome) ==
    [op |-> op, view |-> view, attempts |-> attempts, outcome |-> outcome,
     card |-> 0, soul |-> 0, status |-> <<>>, rect |-> NoRect, bounds |-> NoBounds,
     hero |-> NoRect]

\* the members of textCache_ that depend on the compendium; a texture that
\* is reset is the empty text
EmptyCache ==
    [summaryCards |-> <<>>, spotlightCards |-> <<>>, affinityRows |-> <<>>,
     gradeRows |-> <<>>, datasetPath |-> ""]

\* a view as its constructor leaves it
NewView(compendium) ==
    [exists |-> TRUE, compendium |-> compendium, dataAvailable |-> FALSE,
     activePrimarySoulIndex |-> 0, primaryActionRect |-> NoRect, textCache |-> EmptyCache]

\* one LoadDefault() call: who made it and what IsLoaded() was before it
Attempt(by, wasLoaded) == [by |-> by, wasLoaded |-> wasLoaded]

\* NeedsDefault loading whether or not the compendium is loaded
NeedsDefaultAlways(compendium, isLoaded) == compendium

\* NeedsDefault never loading
NeedsDefaultNever(compendium, isLoaded) == FALSE

\* compendium_ && !compendium_->IsLoaded(): the view loads the default file
NeedsDefault(compendium, isLoaded) == compendium /\ ~isLoaded

\* EnsureCompendium(): the compendium is made and loaded once; an exception
\* of LoadDefault() leaves compendium_ unset and destroys the new instance
EnsureCompendium ==
    IF factory.compendium
    THEN {[threw |-> FALSE, compendium |-> Compendium, attempts |-> <<>>,
           factory |-> factory]}
    ELSE {[threw |-> end.outcome = "threw",
           compendium |-> IF end.outcome = "threw" THEN Compendium ELSE end.state,
           attempts |-> <<Attempt("factory", FALSE)>>,
           factory |-> [compendium |-> end.outcome # "threw",
                        instances |-> factory.instances + 1]] : end \in DefaultLoadEnds}

\* the constructor of HeavenEarthView, given whether the pointer handed to
\* it is set and the compendium c it points to
HeavenEarthView(compendium, c) ==
    IF NeedsDefault(compendium, c.loaded)
    THEN {[threw |-> end.outcome = "threw", compendium |-> end.state,
           attempts |-> <<Attempt("view", c.loaded)>>, view |-> NewView(compendium)] :
             end \in DefaultLoadEnds}
    ELSE {[threw |-> FALSE, compendium |-> c, attempts |-> <<>>,
           view |-> NewView(compendium)]}

\* the id also names the view the call leaves in its place; the factory
\* makes up to MaxInstances compendiums
CreateHeavenEarthView(v) ==
    /\ factory.compendium \/ factory.instances < MaxInstances
    /\ UNCHANGED call
    /\ \E made \in EnsureCompendium :
           IF made.threw
           THEN /\ UNCHANGED <<loaded, sourcePath, souls, summary, views, rotation, activation>>
                /\ factory' = made.factory
                /\ step' = Step("CreateHeavenEarthView", v, made.attempts, "threw")
           ELSE \E built \in HeavenEarthView(TRUE, made.compendium) :
                    /\ factory' = made.factory
                    /\ Becomes(built.compendium)
                    /\ views' = IF built.threw THEN views ELSE [views EXCEPT ![v] = built.view]
                    /\ rotation' = IF built.threw THEN rotation
                                   ELSE [rotation EXCEPT ![v] = NotCounting]
                    /\ activation' = IF built.threw THEN activation
                                     ELSE [activation EXCEPT ![v] = NeverActivated]
                    /\ step' = Step("CreateHeavenEarthView", v,
                                    made.attempts \o built.attempts,
                                    IF built.threw THEN "threw" ELSE "returned")

\* HeavenEarthView(id, nullptr)
ConstructWithoutCompendium(v) ==
    /\ \E built \in HeavenEarthView(FALSE, Compendium) :
           /\ views' = [views EXCEPT ![v] = built.view]
           /\ step' = Step("HeavenEarthView", v, built.attempts, "returned")
    /\ rotation' = [rotation EXCEPT ![v] = NotCounting]
    /\ activation' = [activation EXCEPT ![v] = NeverActivated]
    /\ UNCHANGED <<loaded, sourcePath, souls, summary, call, factory>>

\* CreateSimpleTextView: a view of another class, made without the compendium
CreateSimpleTextView(v) ==
    /\ step' = Step("CreateSimpleTextView", v, <<>>, "returned")
    /\ UNCHANGED <<loaded, sourcePath, souls, summary, call, factory, views, rotation,
                   activation>>

\* BindContent leaving activePrimarySoulIndex_ as it is
BindContentKeepsIndex(v) ==
    /\ views[v].exists
    /\ views' = [views EXCEPT ![v].primaryActionRect = NoRect]
    /\ rotation' = [rotation EXCEPT ![v] = Bound]
    /\ step' = Step("BindContent", v, <<>>, "returned")
    /\ UNCHANGED <<loaded, sourcePath, souls, summary, call, factory, activation>>

BindContent(v) ==
    /\ views[v].exists
    /\ views' = [views EXCEPT ![v].primaryActionRect = NoRect,
                              ![v].activePrimarySoulIndex = 0]
    /\ rotation' = [rotation EXCEPT ![v] = Bound]
    /\ step' = Step("BindContent", v, <<>>, "returned")
    /\ UNCHANGED <<loaded, sourcePath, souls, summary, call, factory, activation>>

Card(label, value) == [label |-> label, value |-> value]

\* BuildSummaryCards: the label of each card and what its value shows
BuildSummaryCards(dataAvailable) ==
    IF ~dataAvailable
    THEN <<Card("Awaiting sync", "-"), Card("Highlight", "Dormant"), Card("Affinities", "0")>>
    ELSE <<Card("Martial souls", summary.totalSouls),
           Card("High-grade focus", summary.highestGrade),
           Card("Affinity spectrum",
                IF summary.affinityCounts = <<>> THEN "-" ELSE summary.affinityCounts[1][1])>>

\* the pointers compendium_->TopSouls(count) may return
TopSoulsOf(count) == {Resize(ranking, count) : ranking \in SortedBySoul(DOMAIN souls)}

\* BuildSpotlights taking the first souls of the file instead of TopSouls(3)
BuildSpotlightsInFileOrder(dataAvailable) ==
    IF ~dataAvailable THEN {<<0>>}
    ELSE {Resize([i \in DOMAIN souls |-> i], SpotlightCount)}

\* BuildSpotlights: the soul of each card, 0 for nullptr
BuildSpotlights(dataAvailable) ==
    IF ~dataAvailable THEN {<<0>>}
    ELSE {SelectSeq(topSouls, LAMBDA soul : soul # 0) : topSouls \in TopSoulsOf(SpotlightCount)}

Row(label, value) == [label |-> label, value |-> value]

\* BuildDistributionRows: the affinity rows
AffinityRows(dataAvailable) ==
    LET topAffinities == IF dataAvailable THEN Resize(summary.affinityCounts, AffinityRowCount)
                         ELSE <<>>
    IN  IF topAffinities = <<>> THEN <<Row("Pending sync", "No affinities loaded")>>
        ELSE [i \in DOMAIN topAffinities |-> Row(topAffinities[i][1], topAffinities[i][2])]

\* BuildDistributionRows: the grade rows
GradeRows(dataAvailable) ==
    LET gradeCounts == IF dataAvailable THEN summary.gradeCounts ELSE <<>>
    IN  IF gradeCounts = <<>> THEN <<Row("Unknown", "Awaiting martial soul data")>>
        ELSE [i \in DOMAIN gradeCounts |-> Row(gradeCounts[i][1], gradeCounts[i][2])]

\* the data-source line of BuildTextCache
DatasetPath(compendium) ==
    IF compendium /\ sourcePath # "" THEN <<"Data source: ", sourcePath>>
    ELSE "Data source unavailable"

\* BuildTextCache: the caches it may build, one for each order TopSouls may
\* give to souls that rank equal
BuildTextCache(dataAvailable, compendium) ==
    {[summaryCards |-> BuildSummaryCards(dataAvailable),
      spotlightCards |-> spotlightCards,
      affinityRows |-> AffinityRows(dataAvailable),
      gradeRows |-> GradeRows(dataAvailable),
      datasetPath |-> DatasetPath(compendium)] :
        spotlightCards \in BuildSpotlights(dataAvailable)}

\* Activate; an exception of LoadDefault() leaves the view as it was
Activate(v) ==
    /\ views[v].exists
    /\ UNCHANGED <<call, factory>>
    /\ \E end \in IF NeedsDefault(views[v].compendium, loaded) THEN DefaultLoadEnds
                  ELSE {Ended("returned", loaded, Compendium)} :
           LET attempts == IF NeedsDefault(views[v].compendium, loaded)
                           THEN <<Attempt("view", loaded)>> ELSE <<>>
           IN  /\ Becomes(end.state)
               /\ IF end.outcome = "threw"
                  THEN /\ UNCHANGED <<views, rotation, activation>>
                       /\ step' = Step("Activate", v, attempts, "threw")
                  ELSE /\ \E compendium \in {views[v].compendium} :
                          \E dataAvailable \in {compendium /\ end.state.loaded} :
                          \E textCache \in BuildTextCache(dataAvailable, compendium)' :
                              /\ views' = [views EXCEPT ![v].dataAvailable = dataAvailable,
                                                        ![v].textCache = textCache]
                              /\ activation' = [activation EXCEPT
                                                  ![v] = Activated(dataAvailable)]
                       /\ rotation' = [rotation EXCEPT
                                         ![v] = IF @ = Bound THEN Counting(0) ELSE NotCounting]
                       /\ step' = Step("Activate", v, attempts, "returned")

\* Deactivate also clearing dataAvailable_
DeactivateClearsFlag(v) ==
    /\ views[v].exists
    /\ views' = [views EXCEPT ![v].textCache = EmptyCache, ![v].primaryActionRect = NoRect,
                              ![v].dataAvailable = FALSE]
    /\ rotation' = [rotation EXCEPT ![v] = NotCounting]
    /\ activation' = [activation EXCEPT
                        ![v] = IF @.phase = "never" THEN @ ELSE Deactivated(@.data)]
    /\ step' = Step("Deactivate", v, <<>>, "returned")
    /\ UNCHANGED <<loaded, sourcePath, souls, summary, call, factory>>

Deactivate(v) ==
    /\ views[v].exists
    /\ views' = [views EXCEPT ![v].textCache = EmptyCache, ![v].primaryActionRect = NoRect]
    /\ rotation' = [rotation EXCEPT ![v] = NotCounting]
    /\ activation' = [activation EXCEPT
                        ![v] = IF @.phase = "never" THEN @ ELSE Deactivated(@.data)]
    /\ step' = Step("Deactivate", v, <<>>, "returned")
    /\ UNCHANGED <<loaded, sourcePath, souls, summary, call, factory>>

\* the lengths ui::Scale(28) and ui::Scale(280) may give
Paddings == {1}

HeroHeights == {0, 1}

\* the bounds handed to Render
Bounds == [given : {TRUE}, w : {-1, 0, 2, 3, 4}, h : {-1, 0, 1, 3}]

\* the width and height of heroRect in RenderHeroSection
HeroRect(bounds, padding, heroHeight) ==
    [engaged |-> TRUE, w |-> bounds.w - padding * 2, h |-> Max(heroHeight, bounds.h \div 3)]

\* RenderHeroSection: primaryActionRect_ after it
RenderHeroSection(rect, hero) == IF hero.w <= 0 \/ hero.h <= 0 THEN rect ELSE ButtonRect(hero)

\* Render leaving primaryActionRect_ as it is before RenderHeroSection
RenderWithoutReset(v, bounds) ==
    /\ views[v].exists
    /\ IF bounds.w <= 0 \/ bounds.h <= 0
       THEN /\ UNCHANGED views
            /\ step' = [Step("Render", v, <<>>, "returned") EXCEPT !.bounds = bounds]
       ELSE \E padding \in Paddings : \E heroHeight \in HeroHeights :
                LET hero == HeroRect(bounds, padding, heroHeight)
                IN  /\ views' = [views EXCEPT ![v].primaryActionRect =
                                                RenderHeroSection(@, hero)]
                    /\ step' = [Step("Render", v, <<>>, "returned") EXCEPT
                                  !.bounds = bounds, !.hero = hero]
    /\ UNCHANGED <<loaded, sourcePath, souls, summary, call, factory, rotation, activation>>

Render(v, bounds) ==
    /\ views[v].exists
    /\ IF bounds.w <= 0 \/ bounds.h <= 0
       THEN /\ UNCHANGED views
            /\ step' = [Step("Render", v, <<>>, "returned") EXCEPT !.bounds = bounds]
       ELSE \E padding \in Paddings : \E heroHeight \in HeroHeights :
                LET hero == HeroRect(bounds, padding, heroHeight)
                IN  /\ views' = [views EXCEPT ![v].primaryActionRect =
                                                RenderHeroSection(NoRect, hero)]
                    /\ step' = [Step("Render", v, <<>>, "returned") EXCEPT
                                  !.bounds = bounds, !.hero = hero]
    /\ UNCHANGED <<loaded, sourcePath, souls, summary, call, factory, rotation, activation>>

\* the index OnPrimaryAction reads at: 0 where the stored one is past the end
ReadIndex(index, size) == IF index >= size THEN 0 ELSE index

\* NextIndex without the wrap to the first card
NextIndexUnwrapped(index, size) == index + 1

\* the index OnPrimaryAction leaves
NextIndex(index, size) == (index + 1) % size

\* spotlightCards[index].soul, the index counted from 0
SoulAt(cards, index) == cards[index + 1]

\* the parts of the status naming the soul a card points to
SpotlightStatus(soul) ==
    <<"Codex spotlight: ", souls[soul].name, " (Grade ", souls[soul].grade,
      ") ready for briefing.">>

OnPrimaryAction(v) ==
    /\ views[v].exists
    /\ LET view == views[v]
           cards == view.textCache.spotlightCards
           index == ReadIndex(view.activePrimarySoulIndex, Len(cards))
       IN  IF cards # <<>>
           THEN /\ views' = [views EXCEPT
                               ![v].activePrimarySoulIndex = NextIndex(index, Len(cards))]
                /\ step' = [Step("OnPrimaryAction", v, <<>>, "returned") EXCEPT
                              !.card = index,
                              !.soul = SoulAt(cards, index),
                              !.status = IF SoulAt(cards, index) # 0
                                         THEN SpotlightStatus(SoulAt(cards, index))
                                         ELSE <<"Codex overview ready.">>]
                /\ rotation' = [rotation EXCEPT
                                  ![v] = IF @.counting /\ @.presses < MaxPresses
                                         THEN Counting(@.presses + 1)
                                         ELSE NotCounting]
           ELSE /\ UNCHANGED views
                /\ step' = [Step("OnPrimaryAction", v, <<>>, "returned") EXCEPT
                              !.card = -1,
                              !.status = IF view.dataAvailable
                                         THEN <<"Martial soul compendium synchronized.">>
                                         ELSE <<"No martial soul data available.">>]
                /\ rotation' = [rotation EXCEPT ![v] = NotCounting]
    /\ UNCHANGED <<loaded, sourcePath, souls, summary, call, factory, activation>>

PrimaryActionRect(v) ==
    /\ views[v].exists
    /\ step' = [Step("PrimaryActionRect", v, <<>>, "returned") EXCEPT
                  !.rect = views[v].primaryActionRect]
    /\ UNCHANGED <<loaded, sourcePath, souls, summary, call, factory, views, rotation,
                   activation>>

Init ==
    /\ loaded = FALSE
    /\ sourcePath = ""
    /\ souls = <<>>
    /\ summary = EmptySummary
    /\ call = Call("none", "", NoFile, 0, "returned", FALSE, <<>>, <<>>)
    /\ factory = [compendium |-> FALSE, instances |-> 0]
    /\ views = [v \in Views |-> NoView]
    /\ rotation = [v \in Views |-> NotCounting]
    /\ activation = [v \in Views |-> NeverActivated]
    /\ step = Step("none", "", <<>>, "returned")

\* the compendium used directly
Next ==
    \/ \E filePath \in Paths : \E file \in FilesAt(filePath) :
           LoadFromFile(filePath, file) /\ UNCHANGED viewVars
    \/ \E defaultPath \in DefaultPaths : \E file \in DefaultFilesAt(defaultPath) :
           LoadDefault(defaultPath, file) /\ UNCHANGED viewVars
    \/ \E count \in 0..MaxCount : TopSouls(count) /\ UNCHANGED viewVars
    \/ \E count \in 0..MaxCount : TopAffinities(count) /\ UNCHANGED viewVars
    \/ GradeCountsDescending /\ UNCHANGED viewVars

Spec == Init /\ [][Next]_vars

\* the compendium used through the factory and the views
ViewNext ==
    \/ \E v \in Views : CreateHeavenEarthView(v)
    \/ \E v \in Views : CreateSimpleTextView(v)
    \/ \E v \in Views : ConstructWithoutCompendium(v)
    \/ \E v \in Views : BindContent(v)
    \/ \E v \in Views : Activate(v)
    \/ \E v \in Views : Deactivate(v)
    \/ \E v \in Views : \E bounds \in Bounds : Render(v, bounds)
    \/ \E v \in Views : OnPrimaryAction(v)
    \/ \E v \in Views : PrimaryActionRect(v)

ViewSpec == Init /\ [][ViewNext]_vars

(***************************************************************************)
(* Vocabulary of the properties: the input format of the file.             *)
(***************************************************************************)
IsLoad == call.op \in {"LoadFromFile", "LoadDefault"}

IsArrayFile(file) == file.kind = "json" /\ file.doc.t = "array"

\* a member is missing or has the type the format gives it
HasFormatType(member, type) == member.t = "absent" \/ member.t = type

\* an object whose name, grade, category and description follow the format
FollowsFormat(entry) ==
    /\ entry.t = "object"
    /\ HasFormatType(entry.name, "string")
    /\ HasFormatType(entry.grade, "number")
    /\ HasFormatType(entry.category, "string")
    /\ HasFormatType(entry.description, "string")

HasName(entry) == entry.t = "object" /\ entry.name.t = "string" /\ entry.name.s # <<>>

\* a well-formed entry: an object of the format with a non-empty name
WellFormed(entry) == FollowsFormat(entry) /\ HasName(entry)

\* a malformed entry: not an object, or an object of the format whose name
\* is missing or empty
Malformed(entry) == entry.t # "object" \/ (FollowsFormat(entry) /\ ~HasName(entry))

\* the grade the format gives an entry
FormatGrade(entry) == IF entry.grade.t = "number" THEN entry.grade.n ELSE 0

\* the compendium as it is before any load
IsEmpty ==
    /\ ~loaded
    /\ souls = <<>>
    /\ sourcePath = ""
    /\ summary = EmptySummary

\* souls_ holds one record per entry of kept, in that order
SoulsAre(kept) ==
    /\ Len(souls) = Len(kept)
    /\ \A i \in 1..Len(kept) :
           /\ souls[i].name = kept[i].name.s
           /\ souls[i].grade = FormatGrade(kept[i])

(***************************************************************************)
(* C1: a load returns false and leaves the compendium empty when the file  *)
(* cannot be opened, is not valid JSON, is not a JSON array or holds no    *)
(* valid entry, and LoadDefault does so when no default path resolves,     *)
(* whatever the compendium held before the call.                           *)
(***************************************************************************)
UnusableFile(file) ==
    \/ file.kind \in {"unreadable", "invalid"}
    \/ file.kind = "json" /\ file.doc.t # "array"
    \/ IsArrayFile(file) /\ \A i \in 1..Len(file.doc.a) : Malformed(file.doc.a[i])

C1_FailedLoadLeavesEmpty ==
    (IsLoad /\ (UnusableFile(call.file) \/ (call.op = "LoadDefault" /\ call.path = "")))
        => (call.outcome = "returned" /\ ~call.ok /\ IsEmpty)

\* a successful load was followed by a load of a file without valid entries
C1_Witness ==
    /\ call.op = "LoadFromFile"
    /\ call.wasLoaded
    /\ IsArrayFile(call.file)
    /\ Len(call.file.doc.a) >= 1
    /\ UnusableFile(call.file)
    /\ IsEmpty

(***************************************************************************)
(* C2: loading an array of N >= 1 well-formed entries returns true, gives  *)
(* exactly N souls in file order (duplicate names kept), totalSouls = N,   *)
(* IsLoaded() and the path given as SourcePath().                          *)
(***************************************************************************)
AllWellFormed(file) ==
    /\ IsArrayFile(file)
    /\ Len(file.doc.a) >= 1
    /\ \A i \in 1..Len(file.doc.a) : WellFormed(file.doc.a[i])

C2_ValidFileLoadsAll ==
    (IsLoad /\ AllWellFormed(call.file))
        => /\ call.outcome = "returned"
           /\ call.ok
           /\ loaded
           /\ SoulsAre(call.file.doc.a)
           /\ summary.totalSouls = Len(call.file.doc.a)
           /\ sourcePath = call.path

\* a file of well-formed entries, two of them with the same name, was loaded
C2_Witness ==
    /\ IsLoad
    /\ AllWellFormed(call.file)
    /\ Len(souls) >= 3
    /\ \E i, j \in DOMAIN souls : i < j /\ souls[i].name = souls[j].name
    /\ sourcePath = call.path

(***************************************************************************)
(* C3: an entry without a name, with an empty name or that is not an       *)
(* object is dropped; the other entries are all kept, in file order, and   *)
(* the load succeeds if at least one entry remains.                        *)
(***************************************************************************)
MalformedOrWellFormed(file) ==
    /\ IsArrayFile(file)
    /\ \A i \in 1..Len(file.doc.a) : Malformed(file.doc.a[i]) \/ WellFormed(file.doc.a[i])

C3_MalformedEntriesDropped ==
    (IsLoad /\ MalformedOrWellFormed(call.file))
        => LET kept == SelectSeq(call.file.doc.a, WellFormed)
           IN  /\ call.outcome = "returned"
               /\ SoulsAre(kept)
               /\ call.ok <=> kept # <<>>
               /\ loaded <=> kept # <<>>

\* a load that dropped one of two entries and kept the other
C3_Witness ==
    /\ IsLoad
    /\ IsArrayFile(call.file)
    /\ Len(call.file.doc.a) >= 2
    /\ \E i, j \in 1..Len(call.file.doc.a) :
           Malformed(call.file.doc.a[i]) /\ WellFormed(call.file.doc.a[j])
    /\ call.ok
    /\ Len(souls) = Len(call.file.doc.a) - 1

(***************************************************************************)
(* Vocabulary of the properties: the loaded souls.                         *)
(***************************************************************************)
Grades == {souls[i].grade : i \in DOMAIN souls}

SoulsOfGrade(g) == {i \in DOMAIN souls : souls[i].grade = g}

Firsts(pairs) == {pairs[i][1] : i \in DOMAIN pairs}

Counts(pairs) == [i \in DOMAIN pairs |-> pairs[i][2]]

\* the counts of a grade histogram, those below the grade least set to 0
CountsFrom(pairs, least) ==
    [i \in DOMAIN pairs |-> IF pairs[i][1] >= least THEN pairs[i][2] ELSE 0]

\* the non-empty affinity strings of the souls, by position
NamedAffinities ==
    UNION {{<<i, j>> : j \in {k \in DOMAIN souls[i].affinities : souls[i].affinities[k] # <<>>}} :
              i \in DOMAIN souls}

UpperCased(p) == NormalizeKey(souls[p[1]].affinities[p[2]])

(***************************************************************************)
(* C4: after every successful load the counts of the grade histogram,      *)
(* which GradeCountsDescending() returns, sum to totalSouls.               *)
(***************************************************************************)
C4_GradeCountsSumToTotal ==
    /\ loaded => SumSeq(Counts(summary.gradeCounts)) = summary.totalSouls
    /\ call.op = "GradeCountsDescending" => call.pairs = summary.gradeCounts

\* the histogram of a load with two grades, one of them held twice, was read
C4_Witness ==
    /\ loaded
    /\ call.op = "GradeCountsDescending"
    /\ Len(call.pairs) >= 2
    /\ \E i \in DOMAIN call.pairs : call.pairs[i][2] >= 2

(***************************************************************************)
(* C5: affinityCounts has one entry per distinct affinity, by descending   *)
(* count and then ascending name; TopAffinities(n) is its first            *)
(* min(n, size) entries; the ranking is the only one the data allow.       *)
(***************************************************************************)
AffinityRanked(pairs) ==
    \A i, j \in DOMAIN pairs :
        i < j => \/ pairs[i][2] > pairs[j][2]
                 \/ pairs[i][2] = pairs[j][2] /\ StrLess(pairs[i][1], pairs[j][1])

C5_AffinityRanking ==
    /\ loaded =>
          /\ Firsts(summary.affinityCounts) = {UpperCased(p) : p \in NamedAffinities}
          /\ Len(summary.affinityCounts) = Cardinality(Firsts(summary.affinityCounts))
          /\ AffinityRanked(summary.affinityCounts)
          /\ \A other \in ComputeSummary(souls) :
                 other.affinityCounts = summary.affinityCounts
    /\ call.op = "TopAffinities" =>
          call.pairs = SubSeq(summary.affinityCounts, 1,
                              Min(call.count, Len(summary.affinityCounts)))

\* TopAffinities cut a ranking in which two affinities have the same count
C5_Witness ==
    /\ loaded
    /\ call.op = "TopAffinities"
    /\ call.count >= 1
    /\ call.count < Len(summary.affinityCounts)
    /\ \E i, j \in DOMAIN summary.affinityCounts :
           i < j /\ summary.affinityCounts[i][2] = summary.affinityCounts[j][2]

(***************************************************************************)
(* C6: TopSouls(n) returns min(n, number of souls) pointers to pairwise    *)
(* distinct elements of souls_, by descending grade and then ascending     *)
(* name; no soul left out ranks higher than the last one returned;         *)
(* TopSouls(0) is empty; the call does not change the compendium.          *)
(***************************************************************************)
\* soul x does not rank below soul y
RanksNoLower(x, y) ==
    \/ souls[x].grade > souls[y].grade
    \/ souls[x].grade = souls[y].grade /\ ~StrLess(souls[y].name, souls[x].name)

TopSoulsRanked ==
    call.op = "TopSouls" =>
        LET r == call.ranking
        IN  /\ Len(r) = Min(call.count, Len(souls))
            /\ \A i \in DOMAIN r : r[i] \in DOMAIN souls
            /\ \A i, j \in DOMAIN r : i < j => r[i] # r[j] /\ RanksNoLower(r[i], r[j])
            /\ \A k \in DOMAIN souls \ Range(r) : r # <<>> => RanksNoLower(r[Len(r)], k)
            /\ call.count = 0 => r = <<>>

C6_TopSouls ==
    /\ []TopSoulsRanked
    /\ [][call'.op = "TopSouls" => UNCHANGED <<loaded, sourcePath, souls, summary>>]_vars

\* TopSouls ranked a soul of a higher grade first and left a soul out
C6_Witness ==
    /\ call.op = "TopSouls"
    /\ Len(call.ranking) >= 2
    /\ Len(call.ranking) < Len(souls)
    /\ call.ranking[1] > call.ranking[2]
    /\ souls[call.ranking[1]].grade > souls[call.ranking[2]].grade

(***************************************************************************)
(* C7: after every successful load highestGrade is the maximum grade of    *)
(* the loaded souls and highestSoulName names a loaded soul of that grade, *)
(* also when all grades are zero or all are negative.                      *)
(***************************************************************************)
C7_HighestGradeAndHolder ==
    loaded =>
        /\ \A i \in DOMAIN souls : souls[i].grade <= summary.highestGrade
        /\ \E i \in DOMAIN souls :
               /\ souls[i].grade = summary.highestGrade
               /\ souls[i].name = summary.highestSoulName

(***************************************************************************)
(* C8: after every successful load rareSouls is the number of souls of     *)
(* grade 7 or more, lies between 0 and totalSouls, and is the sum of the   *)
(* histogram counts of the grades 7 and more.                              *)
(***************************************************************************)
C8_RareSouls ==
    loaded =>
        /\ summary.rareSouls = Cardinality({i \in DOMAIN souls : souls[i].grade >= 7})
        /\ 0 <= summary.rareSouls
        /\ summary.rareSouls <= summary.totalSouls
        /\ summary.rareSouls = SumSeq(CountsFrom(summary.gradeCounts, 7))

\* a load with souls of grade 7 and souls below it
C8_Witness ==
    /\ loaded
    /\ summary.rareSouls >= 2
    /\ summary.rareSouls < summary.totalSouls
    /\ \E i \in DOMAIN souls : souls[i].grade = 7

(***************************************************************************)
(* C9: after every successful load the grade histogram has one entry per   *)
(* grade that occurs, in strictly descending order of grade, and each      *)
(* count is the number of souls of that grade.                             *)
(***************************************************************************)
C9_GradeHistogram ==
    loaded =>
        /\ Firsts(summary.gradeCounts) = Grades
        /\ \A i, j \in DOMAIN summary.gradeCounts :
               i < j => summary.gradeCounts[i][1] > summary.gradeCounts[j][1]
        /\ \A i \in DOMAIN summary.gradeCounts :
               /\ summary.gradeCounts[i][2] = Cardinality(SoulsOfGrade(summary.gradeCounts[i][1]))
               /\ summary.gradeCounts[i][2] >= 1

\* a load whose souls have two grades, the lower one first in the file
C9_Witness ==
    /\ loaded
    /\ Len(summary.gradeCounts) >= 2
    /\ souls[1].grade < souls[Len(souls)].grade
    /\ \E i \in DOMAIN summary.gradeCounts : summary.gradeCounts[i][2] >= 2

(***************************************************************************)
(* C10: after every successful load affinityNames is strictly ascending    *)
(* and holds exactly the keys of affinityCounts, so the two lists have the *)
(* same length.                                                            *)
(***************************************************************************)
C10_AffinityNames ==
    loaded =>
        /\ \A i, j \in DOMAIN summary.affinityNames :
               i < j => StrLess(summary.affinityNames[i], summary.affinityNames[j])
        /\ Range(summary.affinityNames) = Firsts(summary.affinityCounts)
        /\ Len(summary.affinityNames) = Len(summary.affinityCounts)

\* a load with two affinity names, one of them written in lower case and
\* ranked second by its count
C10_Witness ==
    /\ loaded
    /\ Len(summary.affinityNames) >= 2
    /\ summary.affinityCounts[1][1] # summary.affinityNames[1]
    /\ \E p \in NamedAffinities : UpperCased(p) # souls[p[1]].affinities[p[2]]

(***************************************************************************)
(* C11: an entry object with a non-empty name is kept whatever fields it   *)
(* lacks: a missing grade is 0, a missing category or description is the   *)
(* empty string, missing or non-array affinities are the empty list, the   *)
(* elements of affinities that are not strings are left out, and a member  *)
(* under an unknown name changes nothing.                                  *)
(***************************************************************************)
IsJsonString(value) == value.t = "string"

\* the string the format gives a member that is a string or missing
FormatString(member) == IF member.t = "string" THEN member.s ELSE <<>>

\* the affinities the format gives an entry: the strings of the array, in order
FormatAffinities(entry) ==
    IF entry.affinities.t # "array" THEN <<>>
    ELSE LET strings == SelectSeq(entry.affinities.a, IsJsonString)
         IN  [i \in 1..Len(strings) |-> strings[i].s]

\* the record the format gives a well-formed entry
FormatSoul(entry) ==
    [name |-> entry.name.s,
     grade |-> FormatGrade(entry),
     category |-> FormatString(entry.category),
     description |-> FormatString(entry.description),
     affinities |-> FormatAffinities(entry)]

C11_MissingFieldsDefault ==
    (IsLoad /\ MalformedOrWellFormed(call.file))
        => LET kept == SelectSeq(call.file.doc.a, WellFormed)
           IN  /\ call.outcome = "returned"
               /\ Len(souls) = Len(kept)
               /\ \A i \in 1..Len(kept) : souls[i] = FormatSoul(kept[i])

\* a load kept an entry without grade, category and affinities and an entry
\* whose affinities hold an element that is not a string
C11_Witness ==
    /\ IsLoad
    /\ loaded
    /\ IsArrayFile(call.file)
    /\ Len(souls) = 2
    /\ \E i, j \in 1..Len(call.file.doc.a) :
           LET lacking == call.file.doc.a[i]
               mixed == call.file.doc.a[j]
           IN  /\ WellFormed(lacking)
               /\ lacking.grade.t = "absent"
               /\ lacking.category.t = "absent"
               /\ lacking.affinities.t = "absent"
               /\ WellFormed(mixed)
               /\ mixed.description.t = "absent"
               /\ mixed.affinities.t = "array"
               /\ \E k \in DOMAIN mixed.affinities.a : mixed.affinities.a[k].t # "string"
    /\ \E i \in DOMAIN souls : souls[i].grade = 0 /\ souls[i].affinities = <<>>

(***************************************************************************)
(* C12: the state after a successful LoadFromFile depends only on the file *)
(* just loaded: the souls are the records of its well-formed entries and   *)
(* the summary is the one summary of these souls, whatever the compendium  *)
(* held before (so loading A and then B is loading B into a fresh          *)
(* compendium), and loading the same file once more changes nothing.       *)
(***************************************************************************)
LoadedFromFile == call.op = "LoadFromFile" /\ call.ok

StateOfFileOnly ==
    LoadedFromFile
        => LET kept == SelectSeq(call.file.doc.a, WellFormed)
           IN  /\ IsArrayFile(call.file)
               /\ loaded
               /\ sourcePath = call.path
               /\ souls = [i \in 1..Len(kept) |-> FormatSoul(kept[i])]
               /\ ComputeSummary(souls) = {summary}
               /\ summary.totalSouls = Len(kept)

SameFileAgain ==
    /\ LoadedFromFile
    /\ call'.op = "LoadFromFile"
    /\ call'.path = call.path
    /\ call'.file = call.file

C12_LoadDependsOnFileOnly ==
    /\ []StateOfFileOnly
    /\ [][SameFileAgain => UNCHANGED <<loaded, sourcePath, souls, summary>>]_vars

\* a file of one entry was loaded into a compendium that held a loaded file
C12_Witness ==
    /\ LoadedFromFile
    /\ call.wasLoaded
    /\ Len(call.file.doc.a) = 1
    /\ Len(souls) = 1
    /\ summary.totalSouls = 1

(***************************************************************************)
(* C18: LoadFromFile ends with a boolean for every readable file holding a *)
(* JSON array, also when an entry's name, grade, category or description   *)
(* has an unexpected JSON type: it does not end with an exception and      *)
(* leaves no souls in a compendium that is not loaded.                     *)
(***************************************************************************)
C18_LoadEndsWithBoolean ==
    (IsLoad /\ IsArrayFile(call.file))
        => /\ call.outcome = "returned"
           /\ ~loaded => souls = <<>>

(***************************************************************************)
(* C19: in every state reached by LoadFromFile and LoadDefault calls,      *)
(* IsLoaded(), Souls() non-empty and SourcePath() non-empty are all true   *)
(* or all false, and totalSouls is the number of souls.                    *)
(***************************************************************************)
C19_LoadedIffSoulsIffPath ==
    /\ loaded <=> souls # <<>>
    /\ loaded <=> sourcePath # ""
    /\ summary.totalSouls = Len(souls)

(***************************************************************************)
(* Vocabulary of the properties: the factory and the views.                *)
(***************************************************************************)
TheCompendium == <<loaded, sourcePath, souls, summary>>

ViewAttempts == SelectSeq(step.attempts, LAMBDA attempt : attempt.by = "view")

\* the view the latest step was about
StepView == views[step.view]

(***************************************************************************)
(* C13: the shared compendium is read-only after its initial load: once    *)
(* IsLoaded() is true no factory or view operation changes Souls(),        *)
(* Summary(), SourcePath() or IsLoaded(), so IsLoaded() stays true.        *)
(***************************************************************************)
C13_ReadOnlyAfterLoad == [][loaded => UNCHANGED TheCompendium]_vars

\* a view made by the factory over the loaded compendium was activated
\* and asked for its primary action
C13_Witness ==
    /\ loaded
    /\ factory.compendium
    /\ step.op = "OnPrimaryAction"
    /\ StepView.compendium
    /\ StepView.dataAvailable
    /\ step.soul # 0

(***************************************************************************)
(* C14: a view lazily loads the default data: a view whose compendium is   *)
(* set and not loaded calls LoadDefault() at construction and again at     *)
(* Activate, and no view calls it on a loaded compendium; after Activate   *)
(* dataAvailable_ equals the compendium's IsLoaded(), and is false for a   *)
(* view without compendium.                                                *)
(***************************************************************************)
\* no LoadDefault() call of the latest step was made on a loaded compendium
NoLoadWhenLoaded == \A i \in DOMAIN step.attempts : ~step.attempts[i].wasLoaded

\* the view made by the latest step loaded at construction unless the
\* compendium was loaded by then
LoadAtConstruction ==
    step.op \in {"CreateHeavenEarthView", "HeavenEarthView"} =>
        /\ Len(ViewAttempts) <= 1
        /\ (step.outcome = "returned" /\ StepView.compendium /\ ViewAttempts = <<>>) => loaded
        /\ (step.outcome = "returned" /\ ~StepView.compendium) => step.attempts = <<>>

DataAvailableIsLoaded ==
    (step.op = "Activate" /\ step.outcome = "returned") =>
        StepView.dataAvailable = (StepView.compendium /\ loaded)

\* the view loads at Activate exactly when its compendium is set and not loaded
LoadAtActivate ==
    \A v \in Views :
        (step'.op = "Activate" /\ step'.view = v) =>
            step'.attempts = IF views[v].compendium /\ ~loaded
                             THEN <<Attempt("view", FALSE)>> ELSE <<>>

\* a view made over a set compendium that is not loaded loads it
LoadAtCreation ==
    (step'.op = "CreateHeavenEarthView" /\ factory.compendium) =>
        step'.attempts = IF loaded THEN <<>> ELSE <<Attempt("view", FALSE)>>

C14_LazyDefaultLoad ==
    /\ [](NoLoadWhenLoaded /\ LoadAtConstruction /\ DataAvailableIsLoaded)
    /\ [][LoadAtActivate /\ LoadAtCreation]_vars

\* the load failed when the view was made and succeeded at its Activate
C14_Witness ==
    /\ step.op = "Activate"
    /\ step.attempts = <<Attempt("view", FALSE)>>
    /\ factory.compendium
    /\ loaded
    /\ StepView.compendium
    /\ StepView.dataAvailable

(***************************************************************************)
(* C15: the spotlight pointer rotates: on a view with k >= 1 spotlight     *)
(* cards, counting from BindContent followed by Activate, the i-th         *)
(* OnPrimaryAction reports card (i - 1) mod k, so the cards are visited in *)
(* rank order and the first card follows the last.                         *)
(***************************************************************************)
C15_SpotlightRotates ==
    \A v \in Views :
        (step.op = "OnPrimaryAction" /\ step.view = v /\ rotation[v].counting) =>
            LET cards == views[v].textCache.spotlightCards
                i == rotation[v].presses
            IN  /\ Len(cards) >= 1
                /\ step.card = (i - 1) % Len(cards)
                /\ step.soul = cards[step.card + 1]

\* the fourth call on a view with three cards reports the first card again
C15_Witness ==
    \E v \in Views :
        /\ step.op = "OnPrimaryAction"
        /\ step.view = v
        /\ rotation[v].counting
        /\ rotation[v].presses = SpotlightCount + 1
        /\ Len(views[v].textCache.spotlightCards) = 3
        /\ step.card = 0
        /\ step.soul # 0

(***************************************************************************)
(* C20: OnPrimaryAction never reads a spotlight card at an index outside   *)
(* the current list, although Activate and Deactivate rebuild or empty the *)
(* list without resetting the index; after an OnPrimaryAction made with a  *)
(* non-empty list the index is smaller than the size of the list.          *)
(***************************************************************************)
C20_IndexWithinCards ==
    \A v \in Views :
        (step.op = "OnPrimaryAction" /\ step.view = v) =>
            LET size == Len(views[v].textCache.spotlightCards)
            IN  IF size = 0 THEN step.card = -1
                ELSE /\ step.card \in 0..(size - 1)
                     /\ views[v].activePrimarySoulIndex \in 0..(size - 1)

\* a call outside a counted rotation read the third of three cards and
\* wrapped the index to the first
C20_Witness ==
    \E v \in Views :
        /\ step.op = "OnPrimaryAction"
        /\ step.view = v
        /\ ~rotation[v].counting
        /\ Len(views[v].textCache.spotlightCards) = 3
        /\ step.card = 2
        /\ views[v].activePrimarySoulIndex = 0

(***************************************************************************)
(* C16: when the compendium is absent or its load failed, Activate puts    *)
(* the view in the no-data state: three placeholder summary cards, one     *)
(* spotlight card without soul, one placeholder affinity row ("Pending     *)
(* sync"), one placeholder grade row ("Unknown") and the data-source line  *)
(* "Data source unavailable".                                              *)
(***************************************************************************)
Labels(items) == [i \in DOMAIN items |-> items[i].label]

NoDataState(view) ==
    /\ ~view.dataAvailable
    /\ Labels(view.textCache.summaryCards) = <<"Awaiting sync", "Highlight", "Affinities">>
    /\ view.textCache.spotlightCards = <<0>>
    /\ Labels(view.textCache.affinityRows) = <<"Pending sync">>
    /\ Labels(view.textCache.gradeRows) = <<"Unknown">>
    /\ view.textCache.datasetPath = "Data source unavailable"

C16_NoDataState ==
    (step.op = "Activate" /\ ~(StepView.compendium /\ loaded)) => NoDataState(StepView)

\* C16 for the calls of Activate that return
C16_NoDataStateWhenReturned ==
    (step.op = "Activate" /\ step.outcome = "returned" /\ ~(StepView.compendium /\ loaded))
        => NoDataState(StepView)

(***************************************************************************)
(* C17: a failed load is not retried: once a default load of the shared    *)
(* compendium has failed, no later factory or view operation attempts the  *)
(* load again.                                                             *)
(***************************************************************************)
\* the factory's compendium exists and is not loaded: its load has failed
DefaultLoadFailed == factory.compendium /\ ~loaded

C17_FailedLoadNotRetried ==
    /\ [](Len(step.attempts) <= 1)
    /\ [][DefaultLoadFailed => step'.attempts = <<>>]_vars

(***************************************************************************)
(* C23: affinity counting is case-insensitive and per occurrence: every    *)
(* key of affinityCounts is an upper-cased name and its count is the       *)
(* number of non-empty affinity strings, over the lists of all souls,      *)
(* whose upper-cased form is the key; empty strings are counted nowhere.   *)
(***************************************************************************)
IsLower(ch) == ch \in 97..122

\* the string with its letters a..z replaced by A..Z
InUpperCase(str) == [i \in DOMAIN str |-> IF IsLower(str[i]) THEN str[i] - 32 ELSE str[i]]

\* the occurrences of non-empty affinity strings whose upper-cased form is key
Occurrences(key) ==
    {p \in NamedAffinities : InUpperCase(souls[p[1]].affinities[p[2]]) = key}

C23_AffinityCountsPerOccurrence ==
    loaded =>
        LET pairs == summary.affinityCounts
        IN  /\ \A i \in DOMAIN pairs :
                   /\ pairs[i][1] # <<>>
                   /\ \A k \in DOMAIN pairs[i][1] : ~IsLower(pairs[i][1][k])
                   /\ pairs[i][2] = Cardinality(Occurrences(pairs[i][1]))
                   /\ pairs[i][2] >= 1
            /\ \A i, j \in DOMAIN pairs : i # j => pairs[i][1] # pairs[j][1]
            /\ \A p \in NamedAffinities :
                   \E i \in DOMAIN pairs :
                       pairs[i][1] = InUpperCase(souls[p[1]].affinities[p[2]])
            /\ SumSeq(Counts(pairs)) = Cardinality(NamedAffinities)

\* a soul lists one affinity in two spellings, another soul lists an empty
\* affinity string, and a key is counted three times
C23_Witness ==
    /\ loaded
    /\ \E i \in DOMAIN souls : \E j, k \in DOMAIN souls[i].affinities :
           /\ j # k
           /\ souls[i].affinities[j] # souls[i].affinities[k]
           /\ InUpperCase(souls[i].affinities[j]) = InUpperCase(souls[i].affinities[k])
    /\ \E i \in DOMAIN souls : \E j \in DOMAIN souls[i].affinities :
           souls[i].affinities[j] = <<>>
    /\ \E i \in DOMAIN summary.affinityCounts : summary.affinityCounts[i][2] >= 3

(***************************************************************************)
(* C24: when several loaded souls share the highest grade,                 *)
(* highestSoulName is the name of the last of them in file order, whereas  *)
(* TopSouls(1) returns the alphabetically first of them; the two agree     *)
(* whenever exactly one soul has the highest grade and that grade is at    *)
(* least 0.                                                                *)
(***************************************************************************)
\* the souls of the highest grade
Highest == {i \in DOMAIN souls : \A j \in DOMAIN souls : souls[j].grade <= souls[i].grade}

LastOf(S) == CHOOSE i \in S : \A j \in S : j <= i

HolderIsLastHighest ==
    (loaded /\ Cardinality(Highest) >= 2) =>
        summary.highestSoulName = souls[LastOf(Highest)].name

TopSoulIsFirstHighest ==
    (loaded /\ call.op = "TopSouls" /\ call.count >= 1) =>
        /\ Len(call.ranking) >= 1
        /\ call.ranking[1] \in Highest
        /\ \A i \in Highest : ~StrLess(souls[i].name, souls[call.ranking[1]].name)

HolderIsTopSoul ==
    (loaded /\ call.op = "TopSouls" /\ call.count >= 1
        /\ Cardinality(Highest) = 1 /\ \A i \in Highest : souls[i].grade >= 0) =>
        /\ summary.highestSoulName = souls[call.ranking[1]].name
        /\ summary.highestGrade = souls[call.ranking[1]].grade

C24_HolderAndTopSoul == HolderIsLastHighest /\ TopSoulIsFirstHighest /\ HolderIsTopSoul

\* C24 where the highest grade is at least 0
C24_WhereGradeNotNegative ==
    (\A i \in Highest : souls[i].grade >= 0) => C24_HolderAndTopSoul

\* two souls of different names share a highest grade that is not negative,
\* the alphabetically first of them first in the file, and TopSouls(1) was called
C24_Reached ==
    /\ loaded
    /\ call.op = "TopSouls"
    /\ call.count = 1
    /\ Cardinality(Highest) = 2
    /\ summary.highestSoulName # souls[call.ranking[1]].name
    /\ summary.highestGrade >= 0

(***************************************************************************)
(* C25: the aggregates do not depend on the order of the entries: loading  *)
(* a permutation of the entries of the file loaded before gives the same   *)
(* totalSouls, rareSouls, highestGrade, affinityNames, gradeCounts and     *)
(* affinityCounts, and the same (grade, name) pairs from TopSouls(n) for   *)
(* every n.                                                                *)
(***************************************************************************)
Occurs(s, x) == Cardinality({i \in DOMAIN s : s[i] = x})

\* the entries of an array with the number of times each occurs
EntryBag(a) == [x \in Range(a) |-> Occurs(a, x)]

\* the bag of every array of the inputs
EntryBags == [doc \in ArrayDocs |-> EntryBag(doc.a)]

\* the latest two calls loaded two files with the same entries
PermutedLoad ==
    /\ LoadedFromFile
    /\ LoadedFromFile'
    /\ EntryBags[call.file.doc] = EntryBags[call'.file.doc]

Aggregates ==
    <<summary.totalSouls, summary.rareSouls, summary.highestGrade, summary.affinityNames,
      summary.gradeCounts, summary.affinityCounts>>

\* the (grade, name) pairs of the souls of a ranking
PairsOf(ranking) ==
    [i \in DOMAIN ranking |-> <<souls[ranking[i]].grade, souls[ranking[i]].name>>]

\* for every count, the sequences of pairs TopSouls(count) may return
AllRankedPairs ==
    LET rankings == SortedBySoul(DOMAIN souls)
    IN  [count \in 0..MaxCount |-> {PairsOf(Resize(ranking, count)) : ranking \in rankings}]

C25_OrderIndependent ==
    [][PermutedLoad =>
          /\ Aggregates' = Aggregates
          /\ LET pairs == AllRankedPairs
             IN  /\ AllRankedPairs' = pairs
                 /\ \A count \in 0..MaxCount : Cardinality(pairs[count]) = 1]_vars

\* a file of three entries, its last entry of a higher grade than its
\* first, was loaded into a compendium that held a loaded file
C25_Witness ==
    /\ LoadedFromFile
    /\ call.wasLoaded
    /\ Len(souls) >= 3
    /\ Len(call.file.doc.a) = Len(souls)
    /\ souls[1].grade < souls[Len(souls)].grade
    /\ souls[1].name # souls[Len(souls)].name

(***************************************************************************)
(* C21: after Activate on a view whose compendium is loaded with N souls   *)
(* the spotlight cards are the souls of TopSouls(3) in that order:         *)
(* min(3, N) cards, each with a soul, by descending grade and then         *)
(* ascending name, no soul left out ranking higher.  As long as a card     *)
(* holds a soul, the soul is an element of the compendium's soul list,     *)
(* which no factory or view operation changes meanwhile.                   *)
(***************************************************************************)
\* the spotlight cards of the view held under v
SpotlightCards(v) == IF views[v].exists THEN views[v].textCache.spotlightCards ELSE <<>>

\* the cards of v that hold a soul
CardsWithSoul(v) == {i \in DOMAIN SpotlightCards(v) : SpotlightCards(v)[i] # 0}

CardsAreTopSouls ==
    (step.op = "Activate" /\ step.outcome = "returned" /\ StepView.compendium /\ loaded) =>
        LET cards == SpotlightCards(step.view)
        IN  /\ Len(cards) = Min(SpotlightCount, Len(souls))
            /\ \A i \in DOMAIN cards : cards[i] \in DOMAIN souls
            /\ \A i, j \in DOMAIN cards :
                   i < j => cards[i] # cards[j] /\ RanksNoLower(cards[i], cards[j])
            /\ \A k \in DOMAIN souls \ Range(cards) : RanksNoLower(cards[Len(cards)], k)

CardsDesignateSouls ==
    \A v \in Views : \A i \in CardsWithSoul(v) :
        /\ views[v].compendium
        /\ loaded
        /\ SpotlightCards(v)[i] \in DOMAIN souls

\* a step that begins and ends with a card holding a soul leaves the soul list
CardsKeepSouls ==
    \A v \in Views : (CardsWithSoul(v) # {} /\ CardsWithSoul(v)' # {}) => souls' = souls

C21_SpotlightsAreTopSouls ==
    /\ [](CardsAreTopSouls /\ CardsDesignateSouls)
    /\ [][CardsKeepSouls]_vars

\* three cards over four souls, the first card holding the last soul of the
\* file, and a later call names the soul of a card
C21_Witness ==
    /\ step.op = "OnPrimaryAction"
    /\ Len(souls) = 4
    /\ Len(SpotlightCards(step.view)) = 3
    /\ SpotlightCards(step.view)[1] = 4
    /\ step.soul \in DOMAIN souls
    /\ souls[SpotlightCards(step.view)[3]].grade < souls[4].grade

(***************************************************************************)
(* C26: PrimaryActionRect() is empty after BindContent and after           *)
(* Deactivate.  Render with bounds of non-positive width or height changes *)
(* nothing of the view, so a rectangle published before stays.  Render     *)
(* with positive bounds changes the rectangle only: it is the button laid  *)
(* out within the hero section if that has positive width and height, and  *)
(* empty otherwise.                                                        *)
(***************************************************************************)
HasArea(rect) == rect.w > 0 /\ rect.h > 0

RectEmptyAfterBindAndDeactivate ==
    step.op \in {"BindContent", "Deactivate"} => StepView.primaryActionRect = NoRect

\* PrimaryActionRect() gives the stored rectangle, none right after
\* BindContent or Deactivate
RectReturned ==
    step'.op = "PrimaryActionRect" =>
        /\ step'.rect = views[step'.view].primaryActionRect
        /\ step.op \in {"BindContent", "Deactivate"} => ~step'.rect.engaged

RenderWithoutArea ==
    (step'.op = "Render" /\ ~HasArea(step'.bounds)) => views' = views

RenderWithArea ==
    (step'.op = "Render" /\ HasArea(step'.bounds)) =>
        LET v == step'.view
            hero == step'.hero
        IN  /\ \E padding \in Paddings : hero.w = step'.bounds.w - 2 * padding
            /\ hero.h * 3 + 2 >= step'.bounds.h
            /\ views'[v].primaryActionRect.engaged = HasArea(hero)
            /\ HasArea(hero) => views'[v].primaryActionRect = ButtonRect(hero)
            /\ views' = [views EXCEPT ![v].primaryActionRect = views'[v].primaryActionRect]

C26_PrimaryActionRect ==
    /\ []RectEmptyAfterBindAndDeactivate
    /\ [][RectReturned /\ RenderWithoutArea /\ RenderWithArea]_vars

\* a Render without area after one that published a rectangle, and the
\* rectangle is still there
C26_Witness ==
    /\ step.op = "Render"
    /\ step.bounds.w > 0
    /\ step.bounds.h = 0
    /\ StepView.primaryActionRect.engaged
    /\ StepView.primaryActionRect.within.w = 2

\* a Render with positive bounds too narrow for the hero section
C26_NarrowBounds ==
    /\ step.op = "Render"
    /\ HasArea(step.bounds)
    /\ step.hero.w = 0
    /\ ~StepView.primaryActionRect.engaged

(***************************************************************************)
(* C27: OnPrimaryAction writes "No martial soul data available." exactly   *)
(* when the view has no spotlight card and its dataAvailable_ is false,    *)
(* which is so only on a view never activated or deactivated after an      *)
(* activation without data.  An active view without data writes "Codex     *)
(* overview ready.", an active view with data names the soul of one of its *)
(* cards and its grade, and a deactivated view answers from the flag of    *)
(* its latest Activate, "Martial soul compendium synchronized." if true.   *)
(***************************************************************************)
NoDataStatus == <<"No martial soul data available.">>

OverviewStatus == <<"Codex overview ready.">>

SynchronizedStatus == <<"Martial soul compendium synchronized.">>

\* v has no card and its flag is false
Silent(v) == SpotlightCards(v) = <<>> /\ ~views[v].dataAvailable

\* v was never activated, or deactivated after an activation without data
NeverOrDeactivatedWithoutData(v) ==
    \/ activation[v].phase = "never"
    \/ activation[v].phase = "deactivated" /\ ~activation[v].data

SilentOnlyWithoutActivation ==
    \A v \in Views : views[v].exists => (Silent(v) <=> NeverOrDeactivatedWithoutData(v))

\* the status names the soul of a card of v and its grade
NamesSpotlight(v, status) ==
    /\ Len(status) = 5
    /\ \E i \in CardsWithSoul(v) :
           /\ status[2] = souls[SpotlightCards(v)[i]].name
           /\ status[4] = souls[SpotlightCards(v)[i]].grade
    /\ status[1] = "Codex spotlight: "

StatusWritten ==
    step.op = "OnPrimaryAction" =>
        LET v == step.view
            history == activation[v]
        IN  /\ (Len(step.status) = 1 /\ step.status = NoDataStatus) <=> Silent(v)
            /\ history.phase = "never" => step.status = NoDataStatus
            /\ (history.phase = "active" /\ ~history.data) => step.status = OverviewStatus
            /\ (history.phase = "active" /\ history.data) => NamesSpotlight(v, step.status)
            /\ history.phase = "deactivated" =>
                   step.status = IF history.data THEN SynchronizedStatus ELSE NoDataStatus

C27_StatusOfPrimaryAction == SilentOnlyWithoutActivation /\ StatusWritten

\* a view activated without data and then deactivated says that no data is
\* available
C27_Witness ==
    /\ step.op = "OnPrimaryAction"
    /\ activation[step.view].phase = "deactivated"
    /\ ~activation[step.view].data
    /\ step.status = NoDataStatus

\* a view deactivated after an activation with data
C27_Synchronized ==
    /\ step.op = "OnPrimaryAction"
    /\ activation[step.view].phase = "deactivated"
    /\ step.status = SynchronizedStatus

\* an active view with data names the soul of its second card
C27_Spotlight ==
    /\ step.op = "OnPrimaryAction"
    /\ step.card = 1
    /\ NamesSpotlight(step.view, step.status)

(***************************************************************************)
(* C22: a ViewFactory makes at most one compendium.  The first             *)
(* CreateHeavenEarthView makes it and the factory attempts the default     *)
(* load once; every later CreateHeavenEarthView reuses it, whether or not  *)
(* that load succeeded; CreateSimpleTextView makes none.  Every view with  *)
(* a compendium therefore holds the one the factory holds.                 *)
(***************************************************************************)
AtMostOneCompendium == factory.instances <= 1

\* the LoadDefault() calls the factory made in the latest step
FactoryAttempts == SelectSeq(step.attempts, LAMBDA attempt : attempt.by = "factory")

FirstCreatesLaterReuse ==
    step'.op = "CreateHeavenEarthView" =>
        IF factory.instances = 0
        THEN factory'.instances = 1 /\ Len(FactoryAttempts') = 1
        ELSE factory' = factory /\ FactoryAttempts' = <<>>

SimpleTextViewMakesNone ==
    step'.op = "CreateSimpleTextView" =>
        /\ factory' = factory
        /\ step'.attempts = <<>>
        /\ UNCHANGED TheCompendium

\* a view with a compendium holds the one the factory holds
ViewsShareCompendium ==
    \A v \in Views : (views[v].exists /\ views[v].compendium) => factory.compendium

C22_OneCompendium ==
    /\ [](AtMostOneCompendium /\ ViewsShareCompendium)
    /\ [][FirstCreatesLaterReuse /\ SimpleTextViewMakesNone]_vars

\* once the factory holds a compendium it keeps it and makes no other; it
\* makes another one only while it holds none, which is so only while every
\* default load it attempted ended with an exception
HeldCompendiumIsKept ==
    /\ factory.compendium => factory' = factory
    /\ (step'.op = "CreateHeavenEarthView" /\ ~factory.compendium) =>
           /\ factory'.instances = factory.instances + 1
           /\ Len(FactoryAttempts') = 1
           /\ factory'.compendium = (step'.outcome = "returned" \/ Len(step'.attempts) = 2)

C22_OneCompendiumHeld ==
    /\ []ViewsShareCompendium
    /\ [][HeldCompendiumIsKept /\ SimpleTextViewMakesNone]_vars

\* the factory made a second compendium, loaded it, and a view uses it
C22_Reached ==
    /\ factory.instances = 2
    /\ factory.compendium
    /\ loaded
    /\ step.op = "OnPrimaryAction"
    /\ StepView.compendium
    /\ StepView.dataAvailable

====
